---- MODULE Spec2Model ----
(***************************************************************************)
(* Model of the BRAC University announcement bot (src/notice-embed.js):    *)
(* the reconciliation cycle main(), the dispatcher postToDiscord() with     *)
(* its bounded retries, the durable store file (loadPosted / savePosted)    *)
(* the setInterval timer that starts cycles, the remote backup             *)
(* (syncToGitHub, syncIfNeeded and the sync timers) and the masked urls the *)
(* dispatcher logs. Two earlier versions of the program are modelled in the *)
(* same state: src/unnamed/part_001 (long-running) and src/unnamed/part_000 *)
(* (one run).                                                               *)
(*                                                                          *)
(* One action is one run-to-completion segment of the JavaScript event      *)
(* loop: the code between two awaits that wait for a timer or for I/O.      *)
(* Time inside one postToDiscord call is counted in seconds since the call  *)
(* (and the 30 s timer of main) started.                                    *)
(***************************************************************************)
EXTENDS Integers, Sequences, FiniteSets, TLC

(* ------------------------------ bounds --------------------------------- *)
MaxCycles == 2          \* Spec: invocations of main() (the initial call, timer ticks)
OverlapFeed == 1        \* Spec: items in one fetched feed
OverlapTargets == 1     \* Spec: entries of WEBHOOK_URLS
NumIds == 2             \* Spec, SpecOne: distinct announcement ids
MaxFeed == 2            \* SpecOne: items in one fetched feed
MaxTargets == 2         \* SpecOne: entries of WEBHOOK_URLS (0 .. MaxTargets)
LongFeed == 3           \* SpecFeed: items in one fetched feed
LongFeedIds == 3        \* SpecFeed: distinct announcement ids
LongFeedTargets == 1    \* SpecFeed: entries of WEBHOOK_URLS
MaxInitStore == 1       \* records in the store file when the process starts
SendTargets == 2        \* SpecSend: entries of WEBHOOK_URLS (1 .. SendTargets)
SendFeed == 1           \* SpecSend: items in one fetched feed
LiveTargets == 2        \* SpecLive: entries of WEBHOOK_URLS
SyncTargets == 1        \* SpecSync: entries of WEBHOOK_URLS
SyncFeed == 1           \* SpecSync: items in one fetched feed
EarlyTargets == 2       \* SpecEarly: entries of WEBHOOK_URLS (0 .. EarlyTargets)
EarlyFeed == 2          \* SpecEarly: items in one fetched feed
EarlyIds == 2           \* SpecEarly: distinct announcement ids
OneShotFeed == 3        \* SpecOneShot: items in the fetched page
OneShotIds == 3         \* SpecOneShot: distinct announcement ids
MaskTargets == 1        \* SpecMask: entries of WEBHOOK_URLS
MaskFeed == 1           \* SpecMask: items in one fetched feed
MaxUrlLen == 45         \* SpecMask: characters in an entry of WEBHOOK_URLS (0 .. MaxUrlLen)
WebhookUrlLen == 121    \* the other specifications: characters in a Discord webhook url
WebhookUrlSlash == 53   \* the other specifications: position of its last "/"

(* ------------------------- program constants --------------------------- *)
MaxAttempts == 3        \* for (attempt = 1; attempt <= 3; attempt++)
AttemptTimeoutBase == 10 \* timeoutMs = 10000 * attempt
BackoffBase == 2        \* backoffDelay = 2000 * 2^(attempt-1)
TargetPause == 1        \* 1000 ms between webhooks
PostTimeout == 30       \* main: 'Discord posting timed out after 30 seconds'
MaskHead == 30          \* url.substring(0, 30)
MaskTail == 10          \* url.substring(url.length - 10)

Cycles == 1..MaxCycles
FeedIdx == 1..(IF LongFeed > MaxFeed THEN LongFeed ELSE MaxFeed)
TargetIdx == 1..(IF SendTargets > MaxTargets THEN SendTargets ELSE MaxTargets)

VARIABLES
    file,       \* DB_FILE: [kind, recs]
    targets,    \* WEBHOOK_URLS.length
    nStarted,   \* number of invocations of main() so far
    pc,         \* per cycle: the await main() is suspended at
    outcome,    \* per cycle: how main() ended
    posted,     \* per cycle: const posted = loadPosted()
    feed,       \* per cycle: const announcements = await fetchAnnouncements()
    i,          \* per cycle: position of the for loop (1 = first item visited)
    succ,       \* per cycle: successfulAnnouncements (record ids)
    succIdx,    \* per cycle: feed index of each element of succ (history)
    start,      \* per cycle: DB_FILE as it was when the cycle began (history)
    writes,     \* per cycle: the fs.writeFileSync calls on DB_FILE it made (history)
    calls,      \* per cycle and feed index: the postToDiscord call for that item
    alive,      \* the node process is running
    token,      \* process.env.GITHUB_TOKEN is set
    syncDue,    \* Date.now() - lastSyncTime >= SYNC_INTERVAL_MS
    sync,       \* per cycle: the syncToGitHub call made by main()
    wire,       \* per cycle and feed index: the sends on the network (history)
    lastSync,   \* the last syncToGitHub that returned true, while less than
                \* SYNC_INTERVAL_MS old (history)
    tsync,      \* the syncToGitHub call made by the startup and periodic timers
    urls,       \* WEBHOOK_URLS
    logged      \* per cycle and feed index: the masked urls the call logged (history)

vars == <<file, targets, nStarted, pc, outcome, posted, feed, i, succ, succIdx,
          start, writes, calls, alive, token, syncDue, sync, wire, lastSync, tsync,
          urls, logged>>

(* ------------------------------ helpers -------------------------------- *)
Ids(s) == {s[x] : x \in DOMAIN s}

Count(s, v) == Cardinality({x \in DOMAIN s : s[x] = v})

IsPrefix(s, t) == Len(s) <= Len(t) /\ SubSeq(t, 1, Len(s)) = s

Injective(s) == \A x, y \in DOMAIN s : s[x] = s[y] => x = y

SetMin(S) == CHOOSE x \in S : \A y \in S : x <= y

RECURSIVE Pow2(_)
Pow2(n) == IF n <= 0 THEN 1 ELSE 2 * Pow2(n - 1)

SeqsUpTo(S, n) == UNION {[1..m -> S] : m \in 0..n}

(* --------------------------- the store file ---------------------------- *)
\* kind: "absent" (no file), "garbage" (JSON.parse throws), "nonarray" (parses,
\* but to a value that is no array), "valid" (a JSON array of records).
FileOf(kind, recs) == [kind |-> kind, recs |-> recs]

EmptyFile == FileOf("valid", <<>>)

\* The records a reader of the file can see.
RecordsOf(f) == IF f.kind = "valid" THEN f.recs ELSE <<>>

\* Variant of loadPosted that starts from an empty store on every load.
loadPostedAlwaysReset(f) ==
    IF f.kind = "nonarray"
    THEN [ret |-> <<>>, isArray |-> FALSE, file |-> f, wrote |-> FALSE]
    ELSE [ret |-> <<>>, isArray |-> TRUE, file |-> EmptyFile, wrote |-> TRUE]

\* loadPosted(): the value returned, whether it is an array, the file left and
\* whether the file was written. A file that parses is returned as it is; an
\* absent file, or one JSON.parse throws on, is replaced by an empty array.
loadPosted(f) ==
    CASE f.kind = "valid" ->
           [ret |-> f.recs, isArray |-> TRUE, file |-> f, wrote |-> FALSE]
      [] f.kind = "nonarray" ->
           [ret |-> <<>>, isArray |-> FALSE, file |-> f, wrote |-> FALSE]
      [] OTHER ->
           [ret |-> <<>>, isArray |-> TRUE, file |-> EmptyFile, wrote |-> TRUE]

\* savePosted(posted): the file after fs.writeFileSync(DB_FILE, JSON.stringify(posted)).
savePosted(p) == FileOf("valid", p)

(* ------------------------- postToDiscord ------------------------------- *)
\* One call of postToDiscord. st: "none" (never called), "run", "returned",
\* "threw". While it runs: k is the index i of the webhook loop, attempt the
\* retry counter, phase the await it is suspended at ("send": the race of
\* webhookClient.send against the attempt's timer; "backoff": the delay before
\* the next attempt; "pause": the 1 s delay after a webhook). lo and hi are
\* the least and the greatest number of seconds the call can have been running
\* for when it reached that await: a send lasts between no time and its
\* attempt's timeout, a delay lasts what it says. They are kept only while
\* main() awaits the call, so hi never passes the 30 s of main's timer.
\* results is the results array (TRUE for success:true).
NoCall ==
    [st |-> "none", k |-> 0, attempt |-> 0, phase |-> "-", lo |-> 0, hi |-> 0,
     results |-> <<>>]

EndedCall(st, results) ==
    [st |-> st, k |-> 0, attempt |-> 0, phase |-> "-", lo |-> 0, hi |-> 0,
     results |-> results]

\* timeoutMs = 10000 * attempt, in seconds.
AttemptTimeout(attempt) == AttemptTimeoutBase * attempt

\* backoffDelay = 2000 * Math.pow(2, attempt - 1), in seconds.
BackoffDelay(attempt) == BackoffBase * Pow2(attempt - 1)

\* Variant of RetryAllowed with one more attempt (attempt <= 3 for attempt < 3).
RetryAllowedOneMore(attempt) == attempt <= MaxAttempts

\* The retry loop goes on after a failed attempt: if (attempt < 3) { backoff }.
RetryAllowed(attempt) == attempt < MaxAttempts

\* Variant of AllFailed that holds as soon as one outcome is a failure.
AnyFailed(results) == FALSE \in Ids(results)

\* Variant of AllFailed that holds for the empty list too.
AllFailedOrEmpty(results) == TRUE \notin Ids(results)

\* if (results.length > 0 && results.every(r => !r.success)) throw ...
AllFailed(results) == Len(results) > 0 /\ TRUE \notin Ids(results)

\* The state of the call when it reaches its first await: with no webhook the
\* for loop is skipped and the call ends at once, results being [] at the
\* test of line 204.
StartCall(n) ==
    IF n = 0
    THEN EndedCall(IF AllFailed(<<>>) THEN "threw" ELSE "returned", <<>>)
    ELSE [st |-> "run", k |-> 1, attempt |-> 1, phase |-> "send", lo |-> 0, hi |-> 0,
          results |-> <<>>]

\* The longest the await the call is suspended at can last.
CurrentWait(cr) ==
    CASE cr.phase = "send"    -> AttemptTimeout(cr.attempt)
      [] cr.phase = "backoff" -> BackoffDelay(cr.attempt)
      [] OTHER                -> TargetPause

(* --------------------------- the masked url ---------------------------- *)
\* An entry of WEBHOOK_URLS is a string of len characters whose last "/" is at
\* position slash (0: it holds none). A text made of its characters is the
\* sequence of their positions in the url (1 = first character), with 0 for a
\* character that is none of the url's.
Url(len, slash) == [len |-> len, slash |-> slash]

\* An index of String.prototype.substring clamped to the string.
Clamp(n, x) == IF x < 0 THEN 0 ELSE IF x > n THEN n ELSE x

\* s.substring(a, b) for a string s of n characters: the characters at the
\* 0-based indices from the lesser to the greater of the clamped a and b,
\* the greater excluded.
Substring(n, a, b) ==
    LET ca == Clamp(n, a)
        cb == Clamp(n, b)
        lo == IF ca <= cb THEN ca ELSE cb
        hi == IF ca <= cb THEN cb ELSE ca
    IN  [p \in 1..(hi - lo) |-> lo + p]

\* The three characters of '...'.
Dots == <<0, 0, 0>>

\* maskedUrl = url.substring(0, 30) + '...' + url.substring(url.length - 10)
maskedUrl(u) ==
    Substring(u.len, 0, MaskHead) \o Dots \o Substring(u.len, u.len - MaskTail, u.len)

\* getWebhookParts(url).token: the characters after the last "/".
TokenOf(u) == (u.slash + 1)..u.len

\* The whole url, as a text.
FullText(u) == [p \in 1..u.len |-> p]

\* WEBHOOK_URLS.forEach((url, i) => console.log(... maskedUrl)): the masked
\* urls one call of postToDiscord logs.
LogTargets == [t \in 1..targets |-> maskedUrl(urls[t])]

(* ------------------------------- main ---------------------------------- *)
\* Variant of Visit that walks the feed in feed order, first item first.
VisitFeedOrder(n, p) == p

\* for (let i = announcements.length-1; i >= 0; i--): the feed index (1-based)
\* visited at position p of the loop over a feed of n items.
Visit(n, p) == n - p + 1

\* Variant of isKnown that finds no id in the store.
isKnownNever(p, id) == FALSE

\* if (!postedIds.has(ann.id)), postedIds being built once from the loaded store.
isKnown(p, id) == id \in Ids(p)

\* Variant of discordSuccess that counts every ended call as delivered.
discordSuccessAlways(cr) == TRUE

\* discordSuccess: the race was won by postToDiscord returning a list in which
\* some outcome has success:true.
discordSuccess(cr) == cr.st = "returned" /\ TRUE \in Ids(cr.results)

\* main() awaits the race of this call against its 30 s timer.
Attached(c, idx) ==
    /\ pc[c] = "post"
    /\ Visit(Len(feed[c]), i[c]) = idx

\* Variant of HasNextTarget that leaves the loop after a failure outcome.
HasNextTargetUnlessFailed(cr) == cr.k < targets /\ FALSE \notin Ids(cr.results)

\* for (let i = 0; i < WEBHOOK_URLS.length; i++), with no way out of the loop
\* body: another webhook follows the one the call is at.
HasNextTarget(cr) == cr.k < targets

\* Variant of ShouldSave that saves at the end of every loop.
ShouldSaveAlways(sc) == TRUE

\* if (successfulAnnouncements.length > 0) { posted.push(...); savePosted(posted) }
ShouldSave(sc) == Len(sc) > 0

\* Variant of CatchOf in which no try block encloses the save.
CatchOfSaveEscapes(site) ==
    CASE site = "post" -> "dispatch"
      [] site = "sync" -> "syncToGitHub"
      [] site = "save" -> "none"
      [] OTHER         -> "main"

\* Variant of CatchOf in which syncToGitHub has no try block of its own.
CatchOfSyncEscapes(site) ==
    CASE site = "post" -> "dispatch"
      [] OTHER         -> "main"

\* The try block that catches an error raised at a site of a cycle: "post" is
\* the race of line 379, inside the try of lines 378-391 ("dispatch"); "sync"
\* is the body of syncToGitHub, inside its try of lines 260-313; "load" (lines
\* 349-350), "fetch" (line 354) and "save" (lines 419-422) are inside the try
\* of main() only (lines 331-439). "none" would be an error that leaves main().
CatchOf(site) ==
    CASE site = "post" -> "dispatch"
      [] site = "sync" -> "syncToGitHub"
      [] OTHER         -> "main"

\* What console.error of the catch of main() reports for the site.
ErrorOutcome(site) ==
    CASE site = "load"  -> "loadError"
      [] site = "fetch" -> "fetchError"
      [] site = "save"  -> "saveError"
      [] OTHER          -> "syncError"

\* Cycle c after an error raised at site: the catch of the dispatch goes on to
\* the 1 s delay of the loop; syncToGitHub returns false and main() runs to
\* its end; the catch of main() ends the cycle; an error nothing catches
\* rejects the promise of main(), which nothing handles: the process ends.
Raise(c, site) ==
    LET h == CatchOf(site)
    IN  /\ alive' = (h # "none")
        /\ pc' = [pc EXCEPT ![c] = IF h = "dispatch" THEN "pause" ELSE "done"]
        /\ outcome' = [outcome EXCEPT ![c] =
               CASE h = "main"         -> ErrorOutcome(site)
                 [] h = "syncToGitHub" -> "finished"
                 [] h = "dispatch"     -> outcome[c]
                 [] OTHER              -> "escaped"]

\* main() runs to its end.
EndCycle(c) ==
    /\ pc' = [pc EXCEPT ![c] = "done"]
    /\ outcome' = [outcome EXCEPT ![c] = "finished"]
    /\ alive' = alive

\* One call of syncToGitHub by main(): st is "none", "get" (await getContent),
\* "put" (await createOrUpdateFileContents), "true", "false", "threw", or
\* "skipped" (syncIfNeeded did not call it); via is "save" (line 426) or
\* "ifNeeded" (line 433).
NoSync == [st |-> "none", via |-> "-"]

SyncCall(st, via) == [st |-> st, via |-> via]

\* if (!fs.existsSync(DB_FILE)) fs.writeFileSync(DB_FILE, '[]')
syncCreatesFile(f) == IF f.kind = "absent" THEN EmptyFile ELSE f

\* syncToGitHub fails inside its try block.
SyncFails(c, via) ==
    /\ sync' = [sync EXCEPT ![c] =
           SyncCall(IF CatchOf("sync") = "syncToGitHub" THEN "false" ELSE "threw", via)]
    /\ Raise(c, "sync")

\* syncToGitHub up to its first await, f being the store file at the call:
\* without a token it returns false; fs.readFileSync can throw; otherwise the
\* call suspends at getContent.
EnterSync(c, via, f) ==
    IF ~token
    THEN /\ sync' = [sync EXCEPT ![c] = SyncCall("false", via)]
         /\ file' = f
         /\ EndCycle(c)
    ELSE /\ file' = syncCreatesFile(f)
         /\ \E readable \in BOOLEAN :
                IF readable
                THEN /\ sync' = [sync EXCEPT ![c] = SyncCall("get", via)]
                     /\ pc' = [pc EXCEPT ![c] = "sync"]
                     /\ UNCHANGED <<outcome, alive>>
                ELSE SyncFails(c, via)

\* fs.writeFileSync(DB_FILE, text) returns ("ok"), throws before it touched
\* the file ("refused"), or throws after it truncated the file and wrote a
\* part of the text ("partial").
WriteOutcomes == {"ok", "refused", "partial"}

\* The file after writeFileSync of the store p over the file f. No proper
\* prefix of the text of a JSON array parses.
writeFile(f, p, w) ==
    CASE w = "ok"      -> savePosted(p)
      [] w = "partial" -> FileOf("garbage", <<>>)
      [] OTHER         -> f

\* The entry of writes for a call of savePosted.
SaveLog(w) ==
    CASE w = "ok"      -> "save"
      [] w = "partial" -> "savePartial"
      [] OTHER         -> "saveRefused"

\* Variant of SyncsAfterSave in which the sync after a save waits for the
\* cooldown, as syncIfNeeded does.
SyncsAfterSaveIfDue(due) == due

\* After savePosted main() calls syncToGitHub itself (line 426), not
\* syncIfNeeded: the call is made whatever lastSyncTime is.
SyncsAfterSave(due) == TRUE

\* main() after its for loop (lines 416-436): with successful announcements it
\* saves and calls syncToGitHub; without, it calls syncIfNeeded, which calls
\* syncToGitHub when the cooldown is over.
AfterLoop(c, sc) ==
    IF ShouldSave(sc)
    THEN \E w \in WriteOutcomes :
            /\ posted' = [posted EXCEPT ![c] = posted[c] \o sc]
            /\ writes' = [writes EXCEPT ![c] = Append(writes[c], SaveLog(w))]
            /\ IF w = "ok"
               THEN IF SyncsAfterSave(syncDue)
                    THEN EnterSync(c, "save", writeFile(file, posted[c] \o sc, w))
                    ELSE /\ sync' = [sync EXCEPT ![c] = SyncCall("skipped", "save")]
                         /\ file' = writeFile(file, posted[c] \o sc, w)
                         /\ EndCycle(c)
               ELSE /\ file' = writeFile(file, posted[c] \o sc, w)
                    /\ sync' = sync
                    /\ Raise(c, "save")
    ELSE /\ UNCHANGED <<posted, writes>>
         /\ IF syncDue
            THEN EnterSync(c, "ifNeeded", file)
            ELSE /\ sync' = [sync EXCEPT ![c] = SyncCall("skipped", "ifNeeded")]
                 /\ file' = file
                 /\ EndCycle(c)

\* The for loop of main() from position p on, up to its next await; fd is the
\* feed, sc/si the successful announcements so far, cl the calls of the cycle.
\* Either the next unknown item is dispatched (postToDiscord runs to its first
\* await; a call that ended by then is tested at once, lines 379-403), or the
\* loop ends and main() goes on after it.
LoopFrom(c, fd, p, sc, si, cl) ==
    LET n == Len(fd)
        cand == {q \in p..n : ~isKnown(posted[c], fd[Visit(n, q)])}
        won == /\ cand # {}
               /\ StartCall(targets).st # "run"
               /\ discordSuccess(StartCall(targets))
        idx0 == Visit(n, SetMin(cand))
    IN  /\ succ' = [succ EXCEPT ![c] = IF won THEN Append(sc, fd[idx0]) ELSE sc]
        /\ succIdx' = [succIdx EXCEPT ![c] = IF won THEN Append(si, idx0) ELSE si]
        /\ IF cand = {}
           THEN /\ i' = [i EXCEPT ![c] = n + 1]
                /\ calls' = [calls EXCEPT ![c] = cl]
                /\ logged' = logged
                /\ AfterLoop(c, sc)
           ELSE LET q == SetMin(cand)
                    idx == Visit(n, q)
                    cr == StartCall(targets)
                IN  /\ i' = [i EXCEPT ![c] = q]
                    /\ calls' = [calls EXCEPT ![c] = [cl EXCEPT ![idx] = cr]]
                    /\ logged' = [logged EXCEPT ![c][idx] = LogTargets]
                    /\ pc' = [pc EXCEPT ![c] = IF cr.st = "run" THEN "post" ELSE "pause"]
                    /\ UNCHANGED <<posted, file, writes, outcome, alive, sync>>

\* main() is invoked: at startup (c = 1) or by a tick of setInterval. It runs
\* loadPosted and suspends at await fetchAnnouncements(). The write loadPosted
\* makes for an absent or unparseable file can throw, and posted.map throws
\* when the loaded value is no array: the catch of main() logs either.
StartCycle(c) ==
    /\ alive
    /\ c = nStarted + 1
    /\ nStarted' = c
    /\ start' = [start EXCEPT ![c] = file]
    /\ LET r == loadPosted(file)
       IN  \E w \in (IF r.wrote THEN WriteOutcomes ELSE {"ok"}) :
              /\ file' = IF r.wrote THEN writeFile(file, <<>>, w) ELSE r.file
              /\ writes' = [writes EXCEPT ![c] =
                     IF ~r.wrote THEN <<>>
                     ELSE IF w = "ok" THEN <<"load">>
                     ELSE IF w = "partial" THEN <<"loadPartial">>
                     ELSE <<"loadRefused">>]
              /\ posted' = [posted EXCEPT ![c] = r.ret]
              /\ IF r.isArray /\ w = "ok"
                 THEN /\ pc' = [pc EXCEPT ![c] = "fetch"]
                      /\ UNCHANGED <<outcome, alive>>
                 ELSE Raise(c, "load")
    /\ UNCHANGED <<targets, urls, tsync, feed, i, succ, succIdx, calls, logged, token, syncDue, lastSync, sync, wire>>

\* fetchAnnouncements throws: the catch of main() logs it and the cycle ends.
FetchFail(c) ==
    /\ alive
    /\ pc[c] = "fetch"
    /\ Raise(c, "fetch")
    /\ UNCHANGED <<file, targets, urls, tsync, nStarted, posted, feed, i, succ, succIdx, start,
                   writes, calls, logged, token, syncDue, lastSync, sync, wire>>

\* fetchAnnouncements returns fd: an empty feed returns from main(); otherwise
\* the loop starts.
FetchOk(c, fd) ==
    /\ alive
    /\ pc[c] = "fetch"
    /\ feed' = [feed EXCEPT ![c] = fd]
    /\ IF Len(fd) = 0
       THEN /\ pc' = [pc EXCEPT ![c] = "done"]
            /\ outcome' = [outcome EXCEPT ![c] = "emptyFeed"]
            /\ UNCHANGED <<file, posted, i, succ, succIdx, writes, calls, logged, alive, sync>>
       ELSE LoopFrom(c, fd, 1, <<>>, <<>>, calls[c])
    /\ UNCHANGED <<targets, urls, tsync, nStarted, start, token, syncDue, lastSync, wire>>

\* An await of the call that lasts at least d seconds can end while main()
\* still awaits the call only if that is within the 30 s of main's timer.
InTime(c, idx, d) == Attached(c, idx) => calls[c][idx].lo + d <= PostTimeout

\* The call's clock after an await that lasted between dlo and dhi seconds.
Later(c, idx, cr, dlo, dhi) ==
    IF Attached(c, idx)
    THEN [cr EXCEPT !.lo = cr.lo + dlo,
                    !.hi = IF cr.hi + dhi > PostTimeout THEN PostTimeout ELSE cr.hi + dhi]
    ELSE cr

\* The sends of one call on the network: per webhook, pend is the number of
\* sends whose attempt timed out and that are still in flight, recv the number
\* of sends the webhook accepted.
NoWire == [pend |-> [t \in TargetIdx |-> 0], recv |-> [t \in TargetIdx |-> 0]]

\* The call after a failed attempt: before the last attempt the backoff
\* follows; after it the failure is pushed.
AfterFailedAttempt(cr, nx) ==
    IF RetryAllowed(cr.attempt)
    THEN [nx EXCEPT !.phase = "backoff"]
    ELSE [nx EXCEPT !.results = Append(cr.results, FALSE), !.phase = "pause"]

\* webhookClient.send resolves: the outcome is pushed and the retry loop left.
SendOk(c, idx) ==
    LET cr == calls[c][idx]
    IN  /\ alive
        /\ cr.st = "run"
        /\ cr.phase = "send"
        /\ calls' = [calls EXCEPT ![c][idx] =
               [Later(c, idx, cr, 0, AttemptTimeout(cr.attempt))
                   EXCEPT !.results = Append(cr.results, TRUE),
                          !.phase = "pause"]]
        /\ wire' = [wire EXCEPT ![c][idx].recv[cr.k] = @ + 1]
        /\ UNCHANGED <<file, targets, urls, tsync, nStarted, pc, outcome, posted, feed, i, succ,
                       succIdx, start, writes, alive, token, syncDue, lastSync, sync, logged>>

\* The race of an attempt rejects: the send was rejected, or the attempt's
\* timer fired first. Before the last attempt the backoff follows; after it
\* the failure is pushed.
SendFail(c, idx) ==
    LET cr == calls[c][idx]
        nx == Later(c, idx, cr, 0, AttemptTimeout(cr.attempt))
    IN  /\ alive
        /\ cr.st = "run"
        /\ cr.phase = "send"
        /\ calls' = [calls EXCEPT ![c][idx] = AfterFailedAttempt(cr, nx)]
        /\ UNCHANGED <<file, targets, urls, tsync, nStarted, pc, outcome, posted, feed, i, succ,
                       succIdx, start, writes, alive, token, syncDue, lastSync, sync, wire, logged>>

\* The timer of an attempt fires first (line 156): the race rejects as in
\* SendFail, and nothing cancels the request webhookClient.send made, which
\* stays in flight.
SendTimeout(c, idx) ==
    LET cr == calls[c][idx]
        d == AttemptTimeout(cr.attempt)
    IN  /\ alive
        /\ cr.st = "run"
        /\ cr.phase = "send"
        /\ InTime(c, idx, d)
        /\ calls' = [calls EXCEPT ![c][idx] =
               AfterFailedAttempt(cr, Later(c, idx, cr, d, d))]
        /\ wire' = [wire EXCEPT ![c][idx].pend[cr.k] = @ + 1]
        /\ UNCHANGED <<file, targets, urls, tsync, nStarted, pc, outcome, posted, feed, i, succ,
                       succIdx, start, writes, alive, token, syncDue, lastSync, sync, logged>>

\* A request whose attempt had timed out is accepted by the webhook: the
\* message is posted; no code of the call is waiting for it.
StaleSendOk(c, idx, t) ==
    /\ alive
    /\ wire[c][idx].pend[t] > 0
    /\ wire' = [wire EXCEPT ![c][idx].pend[t] = @ - 1, ![c][idx].recv[t] = @ + 1]
    /\ UNCHANGED <<file, targets, urls, tsync, nStarted, pc, outcome, posted, feed, i, succ,
                   succIdx, start, writes, calls, logged, alive, token, syncDue, lastSync, sync>>

\* A request whose attempt had timed out fails.
StaleSendFail(c, idx, t) ==
    /\ alive
    /\ wire[c][idx].pend[t] > 0
    /\ wire' = [wire EXCEPT ![c][idx].pend[t] = @ - 1]
    /\ UNCHANGED <<file, targets, urls, tsync, nStarted, pc, outcome, posted, feed, i, succ,
                   succIdx, start, writes, calls, logged, alive, token, syncDue, lastSync, sync>>

\* The backoff delay is over: the next attempt is sent.
BackoffDone(c, idx) ==
    LET cr == calls[c][idx]
    IN  /\ alive
        /\ cr.st = "run"
        /\ cr.phase = "backoff"
        /\ InTime(c, idx, BackoffDelay(cr.attempt))
        /\ calls' = [calls EXCEPT ![c][idx] =
               [Later(c, idx, cr, BackoffDelay(cr.attempt), BackoffDelay(cr.attempt))
                   EXCEPT !.attempt = cr.attempt + 1,
                          !.phase = "send"]]
        /\ UNCHANGED <<file, targets, urls, tsync, nStarted, pc, outcome, posted, feed, i, succ,
                       succIdx, start, writes, alive, token, syncDue, lastSync, sync, wire, logged>>

\* The 1 s delay after a webhook is over. With another webhook to go its first
\* attempt is sent. After the last one postToDiscord throws when all outcomes
\* are failures and returns results otherwise; when main() still awaits the
\* call it resumes in the same turn: it pushes the record when discordSuccess
\* holds, and suspends at its own 1 s delay.
TargetPauseDone(c, idx) ==
    LET cr == calls[c][idx]
        done == EndedCall(IF AllFailed(cr.results) THEN "threw" ELSE "returned",
                          cr.results)
    IN  /\ alive
        /\ cr.st = "run"
        /\ cr.phase = "pause"
        /\ InTime(c, idx, TargetPause)
        /\ IF HasNextTarget(cr)
           THEN /\ calls' = [calls EXCEPT ![c][idx] =
                       [Later(c, idx, cr, TargetPause, TargetPause)
                           EXCEPT !.k = cr.k + 1,
                                  !.attempt = 1,
                                  !.phase = "send"]]
                /\ UNCHANGED <<pc, succ, succIdx, alive>>
           ELSE /\ calls' = [calls EXCEPT ![c][idx] = done]
                /\ IF Attached(c, idx)
                   THEN /\ pc' = [pc EXCEPT ![c] = "pause"]
                        /\ alive' = (done.st = "threw" => CatchOf("post") # "none")
                        /\ IF discordSuccess(done)
                           THEN /\ succ' = [succ EXCEPT ![c] = Append(succ[c], feed[c][idx])]
                                /\ succIdx' = [succIdx EXCEPT ![c] = Append(succIdx[c], idx)]
                           ELSE UNCHANGED <<succ, succIdx>>
                   ELSE UNCHANGED <<pc, succ, succIdx, alive>>
        /\ UNCHANGED <<file, targets, urls, tsync, nStarted, outcome, posted, feed, i, start, writes,
                       token, syncDue, lastSync, sync, wire, logged>>

\* The 30 s timer of main() fires while postToDiscord is still suspended: the
\* race rejects, discordSuccess stays false, main() goes on to its 1 s delay
\* and the call keeps running on its own.
PostTimesOut(c) ==
    LET idx == Visit(Len(feed[c]), i[c])
    IN  /\ alive
        /\ pc[c] = "post"
        /\ calls[c][idx].st = "run"
        /\ calls[c][idx].hi + CurrentWait(calls[c][idx]) >= PostTimeout
        /\ Raise(c, "post")
        /\ calls' = [calls EXCEPT ![c][idx].lo = 0, ![c][idx].hi = 0]
        /\ UNCHANGED <<file, targets, urls, tsync, nStarted, posted, feed, i, succ,
                       succIdx, start, writes, token, syncDue, lastSync, sync, wire, logged>>

\* The 1 s delay of main() after an announcement is over: the loop goes on.
AnnPauseDone(c) ==
    /\ alive
    /\ pc[c] = "pause"
    /\ LoopFrom(c, feed[c], i[c] + 1, succ[c], succIdx[c], calls[c])
    /\ UNCHANGED <<targets, urls, tsync, nStarted, feed, start, token, syncDue, lastSync, wire>>

\* octokit.repos.getContent is over: with the sha it returned, or without one
\* when it threw (inner try of lines 272-282), the call goes on to
\* createOrUpdateFileContents.
SyncGetDone(c) ==
    /\ alive
    /\ pc[c] = "sync"
    /\ sync[c].st = "get"
    /\ sync' = [sync EXCEPT ![c].st = "put"]
    /\ UNCHANGED <<file, targets, urls, tsync, nStarted, pc, outcome, posted, feed, i, succ, succIdx,
                   start, writes, calls, logged, alive, token, syncDue, lastSync, wire>>

\* createOrUpdateFileContents is over: syncToGitHub returns true, or the call
\* threw. syncIfNeeded sets lastSyncTime when it got true; main() then runs to
\* its end.
SyncDone(c) ==
    /\ alive
    /\ pc[c] = "sync"
    /\ sync[c].st = "put"
    /\ \E ok \in BOOLEAN :
          IF ok
          THEN /\ sync' = [sync EXCEPT ![c].st = "true"]
               /\ syncDue' = IF sync[c].via = "ifNeeded" THEN FALSE ELSE syncDue
               /\ lastSync' = IF sync[c].via = "ifNeeded" THEN "gate" ELSE "other"
               /\ EndCycle(c)
          ELSE /\ SyncFails(c, sync[c].via)
               /\ syncDue' = syncDue
               /\ lastSync' = lastSync
    /\ UNCHANGED <<file, targets, urls, tsync, nStarted, posted, feed, i, succ, succIdx, start,
                   writes, calls, logged, token, wire>>

\* SYNC_INTERVAL_MS has passed since lastSyncTime was set.
CooldownElapses ==
    /\ alive
    /\ ~syncDue
    /\ syncDue' = TRUE
    /\ lastSync' = IF lastSync = "gate" THEN "none" ELSE lastSync
    /\ UNCHANGED <<file, targets, urls, tsync, nStarted, pc, outcome, posted, feed, i, succ, succIdx,
                   start, writes, calls, logged, alive, token, sync, wire>>

\* The syncToGitHub call of the timers of lines 510-520: st is "idle" (no call
\* is running), "get" or "put" (the await the call is suspended at);
\* startupFired tells that the 30 s timer of line 511 has fired.
NoTimerSync == [st |-> "idle", startupFired |-> FALSE]

\* A timer fires and its callback calls syncToGitHub, which runs to its first
\* await: by is "startup" (setTimeout, 30 s after the start, once) or
\* "periodic" (setInterval, every SYNC_INTERVAL_MS, so after the first). The
\* timers are set after main() was first called (line 445). Neither callback
\* looks at lastSyncTime.
TimerSyncStart(by) ==
    /\ alive
    /\ nStarted >= 1
    /\ tsync.st = "idle"
    /\ tsync.startupFired = (by = "periodic")
    /\ IF ~token
       THEN /\ tsync' = [tsync EXCEPT !.startupFired = TRUE]
            /\ file' = file
       ELSE /\ file' = syncCreatesFile(file)
            /\ \E readable \in BOOLEAN :
                   tsync' = [st |-> IF readable THEN "get" ELSE "idle",
                             startupFired |-> TRUE]
    /\ UNCHANGED <<targets, urls, nStarted, pc, outcome, posted, feed, i, succ, succIdx,
                   start, writes, calls, logged, alive, token, syncDue, lastSync, sync,
                   wire>>

\* getContent of the timers' call is over.
TimerSyncGetDone ==
    /\ alive
    /\ tsync.st = "get"
    /\ tsync' = [tsync EXCEPT !.st = "put"]
    /\ UNCHANGED <<file, targets, urls, nStarted, pc, outcome, posted, feed, i, succ,
                   succIdx, start, writes, calls, logged, alive, token, syncDue, lastSync,
                   sync, wire>>

\* createOrUpdateFileContents of the timers' call is over: syncToGitHub
\* returns true or false, and the callback drops the value.
TimerSyncDone ==
    /\ alive
    /\ tsync.st = "put"
    /\ tsync' = [tsync EXCEPT !.st = "idle"]
    /\ \E ok \in BOOLEAN : lastSync' = IF ok THEN "other" ELSE lastSync
    /\ UNCHANGED <<file, targets, urls, nStarted, pc, outcome, posted, feed, i, succ,
                   succIdx, start, writes, calls, logged, alive, token, syncDue, sync, wire>>

\* SYNC_INTERVAL_MS has passed since the last sync that was performed, which
\* was not the one lastSyncTime holds the time of (that one is older, so its
\* cooldown is over already).
SyncAges ==
    /\ alive
    /\ lastSync = "other"
    /\ syncDue
    /\ lastSync' = "none"
    /\ UNCHANGED <<file, targets, urls, tsync, nStarted, pc, outcome, posted, feed, i, succ,
                   succIdx, start, writes, calls, logged, alive, token, syncDue, sync, wire>>

\* A send to the first webhook: it gets no answer within the attempt's timer.
FirstTargetHangs(c, idx) ==
    /\ calls[c][idx].k = 1
    /\ SendTimeout(c, idx)

\* A send to the last webhook: it is accepted.
LastTargetAccepts(c, idx) ==
    /\ calls[c][idx].k = targets
    /\ SendOk(c, idx)

\* The invocation c of main() is over and nothing it started is left: its
\* locals are dropped, and the next tick of setInterval starts an invocation
\* in the same place.
Recycle(c) ==
    /\ alive
    /\ c = nStarted
    /\ pc[c] = "done"
    /\ \A x \in FeedIdx : calls[c][x].st # "run"
    /\ \A x \in FeedIdx : \A t \in TargetIdx : wire[c][x].pend[t] = 0
    /\ nStarted' = c - 1
    /\ pc' = [pc EXCEPT ![c] = "idle"]
    /\ outcome' = [outcome EXCEPT ![c] = "none"]
    /\ posted' = [posted EXCEPT ![c] = <<>>]
    /\ feed' = [feed EXCEPT ![c] = <<>>]
    /\ i' = [i EXCEPT ![c] = 0]
    /\ succ' = [succ EXCEPT ![c] = <<>>]
    /\ succIdx' = [succIdx EXCEPT ![c] = <<>>]
    /\ start' = [start EXCEPT ![c] = FileOf("absent", <<>>)]
    /\ writes' = [writes EXCEPT ![c] = <<>>]
    /\ calls' = [calls EXCEPT ![c] = [x \in FeedIdx |-> NoCall]]
    /\ sync' = [sync EXCEPT ![c] = NoSync]
    /\ wire' = [wire EXCEPT ![c] = [x \in FeedIdx |-> NoWire]]
    /\ logged' = [logged EXCEPT ![c] = [x \in FeedIdx |-> <<>>]]
    /\ UNCHANGED <<file, targets, urls, tsync, alive, token, syncDue, lastSync>>

(* ------------- the earlier long-running variant (part_001) ------------- *)
\* src/unnamed/part_001 is an earlier version of the same program, kept in the
\* same state: posted is the array main() loaded and pushes to, succ and
\* succIdx record the pushes of the cycle (history), and a call makes one
\* attempt per webhook. main() has no timer on the call and no try block
\* around it.

\* loadPosted of part_001 (lines 37-42): JSON.parse of the file when it
\* exists, [] otherwise; nothing is written and nothing is caught.
earlyLoadPosted(f) ==
    [ret |-> RecordsOf(f), threw |-> f.kind = "garbage", isArray |-> f.kind # "nonarray"]

\* The try block of main() (lines 245-312) catches an error of the cycle.
EarlyCaught(c, what) ==
    /\ pc' = [pc EXCEPT ![c] = "done"]
    /\ outcome' = [outcome EXCEPT ![c] = what]

\* syncToGitHub with no GITHUB_TOKEN (lines 175-178): it returns false; via
\* syncIfNeeded (lines 234-242) it is called when the cooldown is over.
EarlySync(c, via) ==
    /\ ~token
    /\ sync' = [sync EXCEPT ![c] =
           IF via = "ifNeeded" /\ ~syncDue
           THEN SyncCall("skipped", via)
           ELSE SyncCall("false", via)]
    /\ EarlyCaught(c, "finished")

\* main() after its loop (lines 296-309), ps being posted and sc the pushes.
EarlyAfterLoop(c, ps, sc) ==
    IF Len(sc) > 0
    THEN \E w \in WriteOutcomes :
            /\ writes' = [writes EXCEPT ![c] = Append(writes[c], SaveLog(w))]
            /\ file' = writeFile(file, ps, w)
            /\ IF w = "ok"
               THEN EarlySync(c, "save")
               ELSE /\ sync' = sync
                    /\ EarlyCaught(c, "saveError")
    ELSE /\ UNCHANGED <<writes, file>>
         /\ EarlySync(c, "ifNeeded")

\* The loop of main() (lines 278-294) from position p on, up to its next
\* await: the next item whose id is not in postedIds (the ids of the store as
\* loaded) is dispatched; with no webhook the call returns [] at once, the
\* record is pushed and main() suspends at its 1 s delay.
EarlyLoopFrom(c, fd, p, ps, sc, si, cl) ==
    LET n == Len(fd)
        cand == {q \in p..n : ~isKnown(RecordsOf(start[c]), fd[Visit(n, q)])}
    IN  IF cand = {}
        THEN /\ i' = [i EXCEPT ![c] = n + 1]
             /\ posted' = [posted EXCEPT ![c] = ps]
             /\ succ' = [succ EXCEPT ![c] = sc]
             /\ succIdx' = [succIdx EXCEPT ![c] = si]
             /\ calls' = [calls EXCEPT ![c] = cl]
             /\ EarlyAfterLoop(c, ps, sc)
        ELSE LET q == SetMin(cand)
                 idx == Visit(n, q)
                 cr == StartCall(targets)
                 ran == cr.st = "run"
             IN  /\ i' = [i EXCEPT ![c] = q]
                 /\ calls' = [calls EXCEPT ![c] = [cl EXCEPT ![idx] = cr]]
                 /\ posted' = [posted EXCEPT ![c] = IF ran THEN ps ELSE Append(ps, fd[idx])]
                 /\ succ' = [succ EXCEPT ![c] = IF ran THEN sc ELSE Append(sc, fd[idx])]
                 /\ succIdx' = [succIdx EXCEPT ![c] = IF ran THEN si ELSE Append(si, idx)]
                 /\ pc' = [pc EXCEPT ![c] = IF ran THEN "post" ELSE "pause"]
                 /\ UNCHANGED <<file, writes, outcome, sync>>

\* main() is invoked (lines 244-268): it loads the store and suspends at
\* await fetchAnnouncements(). JSON.parse throws on a file that does not
\* parse and posted.map on a value that is no array.
EarlyStartCycle(c) ==
    /\ alive
    /\ c = nStarted + 1
    /\ nStarted' = c
    /\ start' = [start EXCEPT ![c] = file]
    /\ LET r == earlyLoadPosted(file)
       IN  IF r.threw \/ ~r.isArray
           THEN /\ EarlyCaught(c, "loadError")
                /\ posted' = posted
           ELSE /\ posted' = [posted EXCEPT ![c] = r.ret]
                /\ pc' = [pc EXCEPT ![c] = "fetch"]
                /\ outcome' = outcome
    /\ UNCHANGED <<file, targets, urls, tsync, feed, i, succ, succIdx, writes, calls, logged,
                   alive, token, syncDue, lastSync, sync, wire>>

\* fetchAnnouncements throws.
EarlyFetchFail(c) ==
    /\ alive
    /\ pc[c] = "fetch"
    /\ EarlyCaught(c, "fetchError")
    /\ UNCHANGED <<file, targets, urls, tsync, nStarted, posted, feed, i, succ, succIdx,
                   start, writes, calls, logged, alive, token, syncDue, lastSync, sync, wire>>

\* fetchAnnouncements returns fd (lines 268-278).
EarlyFetchOk(c, fd) ==
    /\ alive
    /\ pc[c] = "fetch"
    /\ feed' = [feed EXCEPT ![c] = fd]
    /\ IF Len(fd) = 0
       THEN /\ EarlyCaught(c, "emptyFeed")
            /\ UNCHANGED <<file, posted, i, succ, succIdx, writes, calls, sync>>
       ELSE EarlyLoopFrom(c, fd, 1, posted[c], <<>>, <<>>, calls[c])
    /\ UNCHANGED <<targets, urls, tsync, nStarted, start, logged, alive, token, syncDue,
                   lastSync, wire>>

\* The call cr of part_001 is through with its webhook: it goes on to the
\* next one, or ends (lines 123-128): it throws when every outcome is a
\* failure, which the try block of main() catches, ending the cycle; otherwise
\* it returns, main() pushes the record (lines 282-289) and suspends at its
\* 1 s delay.
EarlyNextTarget(c, idx, cr) ==
    IF HasNextTarget(cr)
    THEN /\ calls' = [calls EXCEPT ![c][idx] =
                [cr EXCEPT !.k = cr.k + 1, !.phase = "send"]]
         /\ UNCHANGED <<pc, outcome, posted, succ, succIdx>>
    ELSE IF AllFailed(cr.results)
    THEN /\ calls' = [calls EXCEPT ![c][idx] = EndedCall("threw", cr.results)]
         /\ EarlyCaught(c, "postError")
         /\ UNCHANGED <<posted, succ, succIdx>>
    ELSE /\ calls' = [calls EXCEPT ![c][idx] = EndedCall("returned", cr.results)]
         /\ posted' = [posted EXCEPT ![c] = Append(posted[c], feed[c][idx])]
         /\ succ' = [succ EXCEPT ![c] = Append(succ[c], feed[c][idx])]
         /\ succIdx' = [succIdx EXCEPT ![c] = Append(succIdx[c], idx)]
         /\ pc' = [pc EXCEPT ![c] = "pause"]
         /\ outcome' = outcome

\* webhookClient.send resolves (lines 108-116): the success is pushed and the
\* call suspends at its 500 ms delay.
EarlySendOk(c) ==
    LET idx == Visit(Len(feed[c]), i[c])
        cr == calls[c][idx]
    IN  /\ alive
        /\ pc[c] = "post"
        /\ cr.phase = "send"
        /\ calls' = [calls EXCEPT ![c][idx] =
               [cr EXCEPT !.results = Append(cr.results, TRUE), !.phase = "pause"]]
        /\ wire' = [wire EXCEPT ![c][idx].recv[cr.k] = @ + 1]
        /\ UNCHANGED <<file, targets, urls, tsync, nStarted, pc, outcome, posted, feed, i,
                       succ, succIdx, start, writes, logged, alive, token, syncDue,
                       lastSync, sync>>

\* webhookClient.send rejects (lines 117-120): the failure is pushed and the
\* loop goes on with no delay.
EarlySendFail(c) ==
    LET idx == Visit(Len(feed[c]), i[c])
        cr == calls[c][idx]
    IN  /\ alive
        /\ pc[c] = "post"
        /\ cr.phase = "send"
        /\ EarlyNextTarget(c, idx, [cr EXCEPT !.results = Append(cr.results, FALSE)])
        /\ UNCHANGED <<file, targets, urls, tsync, nStarted, feed, i, start, writes, logged,
                       alive, token, syncDue, lastSync, sync, wire>>

\* The 500 ms delay after a success is over (line 116).
EarlyTargetPauseDone(c) ==
    LET idx == Visit(Len(feed[c]), i[c])
        cr == calls[c][idx]
    IN  /\ alive
        /\ pc[c] = "post"
        /\ cr.phase = "pause"
        /\ EarlyNextTarget(c, idx, cr)
        /\ UNCHANGED <<file, targets, urls, tsync, nStarted, feed, i, start, writes, logged,
                       alive, token, syncDue, lastSync, sync, wire>>

\* The 1 s delay of main() after an announcement is over (line 292).
EarlyAnnPauseDone(c) ==
    /\ alive
    /\ pc[c] = "pause"
    /\ EarlyLoopFrom(c, feed[c], i[c] + 1, posted[c], succ[c], succIdx[c], calls[c])
    /\ UNCHANGED <<targets, urls, tsync, nStarted, feed, start, logged, alive, token,
                   syncDue, lastSync, wire>>

(* --------------------- the one-shot variant (part_000) ----------------- *)
\* src/unnamed/part_000 runs main() once and lets the process end. It has one
\* hard-coded webhook and no try block: an error rejects the promise of
\* main(), which nothing handles. What node does then depends on its version:
\* it ends the process with exit code 1 (the default since node 15), or
\* prints a warning and ends with exit code 0 when nothing is left to run.
ExitCodes == {"exit0", "exit1"}

\* main() ran to its end: the process ends with exit code 0.
OneShotEnd ==
    /\ pc' = [pc EXCEPT ![1] = "done"]
    /\ outcome' = [outcome EXCEPT ![1] = "exit0"]
    /\ alive' = FALSE

\* The promise of main() is rejected and the process ends.
OneShotRejected ==
    /\ pc' = [pc EXCEPT ![1] = "rejected"]
    /\ \E code \in ExitCodes : outcome' = [outcome EXCEPT ![1] = code]
    /\ alive' = FALSE

\* The for-of loop of main() (lines 78-85) from position p on, in feed
\* order, up to its next await, and the end of main() (lines 86-87): ps is
\* posted, sc the pushes so far.
OneShotLoopFrom(fd, p, ps, sc, si, cl) ==
    LET cand == {q \in p..Len(fd) : ~isKnown(RecordsOf(start[1]), fd[q])}
    IN  /\ posted' = [posted EXCEPT ![1] = ps]
        /\ succ' = [succ EXCEPT ![1] = sc]
        /\ succIdx' = [succIdx EXCEPT ![1] = si]
        /\ IF cand # {}
           THEN /\ i' = [i EXCEPT ![1] = SetMin(cand)]
                /\ calls' = [calls EXCEPT ![1] = [cl EXCEPT ![SetMin(cand)] = StartCall(1)]]
                /\ pc' = [pc EXCEPT ![1] = "post"]
                /\ UNCHANGED <<file, writes, outcome, alive>>
           ELSE /\ i' = [i EXCEPT ![1] = Len(fd) + 1]
                /\ calls' = [calls EXCEPT ![1] = cl]
                /\ IF Len(sc) > 0
                   THEN \E w \in WriteOutcomes :
                           /\ writes' = [writes EXCEPT ![1] = Append(writes[1], SaveLog(w))]
                           /\ file' = writeFile(file, ps, w)
                           /\ IF w = "ok" THEN OneShotEnd ELSE OneShotRejected
                   ELSE /\ UNCHANGED <<file, writes>>
                        /\ OneShotEnd

\* main() is called (line 90, lines 72-75): loadPosted (lines 8-13) parses
\* the file when it exists.
OneShotStart ==
    /\ alive
    /\ nStarted = 0
    /\ nStarted' = 1
    /\ start' = [start EXCEPT ![1] = file]
    /\ LET r == earlyLoadPosted(file)
       IN  IF r.threw \/ ~r.isArray
           THEN /\ OneShotRejected
                /\ posted' = posted
           ELSE /\ posted' = [posted EXCEPT ![1] = r.ret]
                /\ pc' = [pc EXCEPT ![1] = "fetch"]
                /\ UNCHANGED <<outcome, alive>>
    /\ UNCHANGED <<file, targets, urls, tsync, feed, i, succ, succIdx, writes, calls, logged,
                   token, syncDue, lastSync, sync, wire>>

\* fetchAnnouncements (lines 28-70) throws.
OneShotFetchFail ==
    /\ alive
    /\ pc[1] = "fetch"
    /\ OneShotRejected
    /\ UNCHANGED <<file, targets, urls, tsync, nStarted, posted, feed, i, succ, succIdx,
                   start, writes, calls, logged, token, syncDue, lastSync, sync, wire>>

\* fetchAnnouncements returns fd.
OneShotFetchOk(fd) ==
    /\ alive
    /\ pc[1] = "fetch"
    /\ feed' = [feed EXCEPT ![1] = fd]
    /\ OneShotLoopFrom(fd, 1, posted[1], <<>>, <<>>, calls[1])
    /\ UNCHANGED <<targets, urls, tsync, nStarted, start, logged, token, syncDue, lastSync,
                   sync, wire>>

\* The fetch of postToDiscord (lines 19-26) resolves: the webhook accepted
\* the message ("delivered") or answered with an error status ("httpError"),
\* which the code does not look at. Either way main() pushes the record and
\* the loop goes on.
OneShotPostResolves(answer) ==
    LET idx == i[1]
        done == EndedCall("returned", <<answer = "delivered">>)
    IN  /\ alive
        /\ pc[1] = "post"
        /\ wire' = [wire EXCEPT ![1][idx].recv[1] = IF answer = "delivered" THEN 1 ELSE 0]
        /\ OneShotLoopFrom(feed[1], idx + 1, Append(posted[1], feed[1][idx]),
                           Append(succ[1], feed[1][idx]), Append(succIdx[1], idx),
                           [calls[1] EXCEPT ![idx] = done])
        /\ UNCHANGED <<targets, urls, tsync, nStarted, feed, start, logged, token, syncDue,
                       lastSync, sync>>

\* The fetch of postToDiscord rejects (the webhook cannot be reached):
\* postToDiscord rejects, and so does main().
OneShotPostRejects ==
    /\ alive
    /\ pc[1] = "post"
    /\ calls' = [calls EXCEPT ![1][i[1]] = EndedCall("threw", <<FALSE>>)]
    /\ OneShotRejected
    /\ UNCHANGED <<file, targets, urls, tsync, nStarted, posted, feed, i, succ, succIdx,
                   start, writes, logged, token, syncDue, lastSync, sync, wire>>

(* --------------------------- specification ----------------------------- *)
\* The store files the process can find when it starts: the stores hold the
\* first m ids, in order (ids are interchangeable).
InitFiles ==
    {FileOf("absent", <<>>), FileOf("garbage", <<>>), FileOf("nonarray", <<>>)}
    \cup {FileOf("valid", [x \in 1..m |-> x]) : m \in 0..MaxInitStore}

\* The feeds of at most n items over m ids.
Feeds(n, m) == SeqsUpTo(1..m, n)

\* A Discord webhook url: https://discord.com/api/webhooks/<id>/<token>.
WebhookUrl == Url(WebhookUrlLen, WebhookUrlSlash)

\* The process starts with a number of webhooks in T whose urls are in U.
InitUrls(T, U) ==
    /\ file \in InitFiles
    /\ targets \in T
    /\ urls \in [1..targets -> U]
    /\ nStarted = 0
    /\ pc = [c \in Cycles |-> "idle"]
    /\ outcome = [c \in Cycles |-> "none"]
    /\ posted = [c \in Cycles |-> <<>>]
    /\ feed = [c \in Cycles |-> <<>>]
    /\ i = [c \in Cycles |-> 0]
    /\ succ = [c \in Cycles |-> <<>>]
    /\ succIdx = [c \in Cycles |-> <<>>]
    /\ start = [c \in Cycles |-> FileOf("absent", <<>>)]
    /\ writes = [c \in Cycles |-> <<>>]
    /\ calls = [c \in Cycles |-> [x \in FeedIdx |-> NoCall]]
    /\ alive = TRUE
    /\ token \in BOOLEAN
    /\ syncDue = TRUE
    /\ sync = [c \in Cycles |-> NoSync]
    /\ wire = [c \in Cycles |-> [x \in FeedIdx |-> NoWire]]
    /\ lastSync = "none"
    /\ tsync = NoTimerSync
    /\ logged = [c \in Cycles |-> [x \in FeedIdx |-> <<>>]]

InitWith(T) == InitUrls(T, {WebhookUrl})

\* The steps of the cycles in CS over the feeds in FS.
Step(CS, FS) ==
    \/ \E c \in CS : FetchFail(c)
    \/ \E c \in CS : \E fd \in FS : FetchOk(c, fd)
    \/ \E c \in CS : \E idx \in FeedIdx : SendOk(c, idx)
    \/ \E c \in CS : \E idx \in FeedIdx : SendFail(c, idx)
    \/ \E c \in CS : \E idx \in FeedIdx : BackoffDone(c, idx)
    \/ \E c \in CS : \E idx \in FeedIdx : TargetPauseDone(c, idx)
    \/ \E c \in CS : PostTimesOut(c)
    \/ \E c \in CS : AnnPauseDone(c)
    \/ \E c \in CS : SyncGetDone(c)
    \/ \E c \in CS : SyncDone(c)
    \/ CooldownElapses

\* The program: main() at startup, then a tick of setInterval(main, ...) at any
\* time, whatever the earlier invocations of main() are doing.
Init == InitWith({OverlapTargets})

Next ==
    \/ \E c \in Cycles : StartCycle(c)
    \/ Step(Cycles, Feeds(OverlapFeed, NumIds))

Spec == Init /\ [][Next]_vars

\* The first cycle alone (the process up to the first tick of the timer), with
\* every number of webhooks and longer feeds.
InitOne == InitWith(0..MaxTargets)

NextOne ==
    \/ StartCycle(1)
    \/ Step({1}, Feeds(MaxFeed, NumIds))

SpecOne == InitOne /\ [][NextOne]_vars

\* The first cycle alone, with one webhook and the longest feeds.
InitFeed == InitWith({LongFeedTargets})

NextFeed ==
    \/ StartCycle(1)
    \/ Step({1}, Feeds(LongFeed, LongFeedIds))

SpecFeed == InitFeed /\ [][NextFeed]_vars

\* The first cycle alone over a short feed, with the requests that attempts
\* left in flight when their timer fired.
InitSend == InitWith(1..SendTargets)

NextSend ==
    \/ StartCycle(1)
    \/ Step({1}, Feeds(SendFeed, 1))
    \/ \E idx \in FeedIdx : SendTimeout(1, idx)
    \/ \E idx \in FeedIdx : \E t \in TargetIdx : StaleSendOk(1, idx, t)
    \/ \E idx \in FeedIdx : \E t \in TargetIdx : StaleSendFail(1, idx, t)

SpecSend == InitSend /\ [][NextSend]_vars

\* Cycle after cycle, none overlapping the next, over a feed that always holds
\* the one announcement 1, with two webhooks: the first never answers within
\* the timer of an attempt, the second accepts every send. Every step that can
\* be taken is taken in the end.
InitLive ==
    /\ InitWith({LiveTargets})
    /\ file.kind # "nonarray"

NextLive ==
    \/ StartCycle(1)
    \/ FetchOk(1, <<1>>)
    \/ \E idx \in FeedIdx : FirstTargetHangs(1, idx)
    \/ \E idx \in FeedIdx : LastTargetAccepts(1, idx)
    \/ \E idx \in FeedIdx : \E t \in TargetIdx : StaleSendFail(1, idx, t)
    \/ \E idx \in FeedIdx : BackoffDone(1, idx)
    \/ \E idx \in FeedIdx : TargetPauseDone(1, idx)
    \/ PostTimesOut(1)
    \/ AnnPauseDone(1)
    \/ SyncGetDone(1)
    \/ SyncDone(1)
    \/ CooldownElapses
    \/ Recycle(1)

SpecLive == InitLive /\ [][NextLive]_vars /\ WF_vars(NextLive)

\* Overlapping cycles together with the timers of the remote backup and the
\* passing of its cooldown.
InitSync == InitWith({SyncTargets})

NextSync ==
    \/ \E c \in Cycles : StartCycle(c)
    \/ Step(Cycles, Feeds(SyncFeed, NumIds))
    \/ \E by \in {"startup", "periodic"} : TimerSyncStart(by)
    \/ TimerSyncGetDone
    \/ TimerSyncDone
    \/ SyncAges

SpecSync == InitSync /\ [][NextSync]_vars

\* The first cycle alone with one webhook, whose url is any string of at most
\* MaxUrlLen characters with its last "/" anywhere; the store file is an
\* empty array.
MaskUrls == {u \in {Url(n, s) : n \in 0..MaxUrlLen, s \in 0..MaxUrlLen} : u.slash <= u.len}

InitMask ==
    /\ InitUrls({MaskTargets}, MaskUrls)
    /\ file = EmptyFile

NextMask ==
    \/ StartCycle(1)
    \/ Step({1}, Feeds(MaskFeed, 1))

SpecMask == InitMask /\ [][NextMask]_vars

\* part_001, the first cycle alone, with no GitHub token.
InitEarly ==
    /\ InitWith(0..EarlyTargets)
    /\ ~token

NextEarly ==
    \/ EarlyStartCycle(1)
    \/ EarlyFetchFail(1)
    \/ \E fd \in Feeds(EarlyFeed, EarlyIds) : EarlyFetchOk(1, fd)
    \/ EarlySendOk(1)
    \/ EarlySendFail(1)
    \/ EarlyTargetPauseDone(1)
    \/ EarlyAnnPauseDone(1)

SpecEarly == InitEarly /\ [][NextEarly]_vars

\* part_000: its one run.
InitOneShot ==
    /\ InitWith({1})
    /\ ~token

NextOneShot ==
    \/ OneShotStart
    \/ OneShotFetchFail
    \/ \E fd \in Feeds(OneShotFeed, OneShotIds) : OneShotFetchOk(fd)
    \/ \E answer \in {"delivered", "httpError"} : OneShotPostResolves(answer)
    \/ OneShotPostRejects

SpecOneShot == InitOneShot /\ [][NextOneShot]_vars

TypeOK ==
    /\ file.kind \in {"absent", "garbage", "nonarray", "valid"}
    /\ targets \in Nat
    /\ nStarted \in 0..MaxCycles
    /\ \A c \in Cycles :
           pc[c] \in {"idle", "fetch", "post", "pause", "sync", "done", "rejected"}
    /\ alive \in BOOLEAN
    /\ token \in BOOLEAN
    /\ syncDue \in BOOLEAN
    /\ \A c \in Cycles :
           /\ sync[c].st \in {"none", "get", "put", "true", "false", "threw", "skipped"}
           /\ sync[c].via \in {"-", "save", "ifNeeded"}
           /\ outcome[c] \in {"none", "loadError", "fetchError", "saveError", "syncError",
                               "emptyFeed", "finished", "escaped", "postError",
                               "exit0", "exit1"}
           /\ \A x \in FeedIdx : \A t \in TargetIdx :
                  wire[c][x].pend[t] \in 0..MaxAttempts /\ wire[c][x].recv[t] \in 0..MaxAttempts
           /\ \A x \in FeedIdx : Len(logged[c][x]) \in {0, targets}
    /\ lastSync \in {"none", "gate", "other"}
    /\ tsync.st \in {"idle", "get", "put"}
    /\ tsync.startupFired \in BOOLEAN
    /\ DOMAIN urls = 1..targets
    /\ lastSync = "gate" => ~syncDue

(* ------------------------------ properties ----------------------------- *)
InProgress(c) == pc[c] \notin {"idle", "done"}

NoCalls(c) == \A idx \in FeedIdx : calls[c][idx].st = "none"

\* The call ended by returning a list with an outcome success:true.
HasSuccess(cr) == cr.st = "returned" /\ TRUE \in Ids(cr.results)

OthersWroteNothing(c) == \A d \in Cycles \ {c} : writes[d] = <<>>

\* Every fs.writeFileSync call made so far returned.
NoWriteFailed == \A c \in Cycles : Ids(writes[c]) \subseteq {"load", "save"}

\* fetchAnnouncements returned to main() in cycle c.
FetchReturned(c) ==
    \/ pc[c] \in {"post", "pause", "sync"}
    \/ outcome[c] \in {"emptyFeed", "finished"}

\* C1: when the postToDiscord call for an announcement ends with an outcome
\* success:true, the store holds exactly one new record with its id once the
\* cycle has ended. Stated for a cycle that runs alone over a feed of distinct
\* ids and whose file writes all returned, so that only the timing of the
\* attempts is left to break it.
C1_SuccessImpliesPersisted ==
    \A c \in Cycles : \A idx \in DOMAIN feed[c] :
        ( /\ pc[c] = "done"
          /\ NoWriteFailed
          /\ \A d \in Cycles \ {c} : pc[d] = "idle"
          /\ Injective(feed[c])
          /\ HasSuccess(calls[c][idx]) )
        => /\ feed[c][idx] \notin Ids(RecordsOf(start[c]))
           /\ Count(RecordsOf(file), feed[c][idx]) = 1

\* C2: the store never holds two records with the same id.
C2_NoDuplicateIds == Injective(RecordsOf(file))

\* C3: a record is added only for an announcement with a successful target
\* outcome: every element of successfulAnnouncements comes from a call of the
\* same cycle that returned an outcome success:true, and an id that was not in
\* the store at startup and for which no call had a success is not in the
\* store, so that the next cycle finds it unknown.
C3_RecordOnlyOnSuccess ==
    /\ \A c \in Cycles : \A j \in DOMAIN succ[c] :
           /\ j \in DOMAIN succIdx[c]
           /\ succIdx[c][j] \in DOMAIN feed[c]
           /\ succ[c][j] = feed[c][succIdx[c][j]]
           /\ calls[c][succIdx[c][j]].st = "returned"
           /\ TRUE \in Ids(calls[c][succIdx[c][j]].results)
    /\ nStarted >= 1 =>
           \A id \in Ids(RecordsOf(file)) \ Ids(RecordsOf(start[1])) :
               \E c \in Cycles : \E idx \in DOMAIN feed[c] :
                   /\ feed[c][idx] = id
                   /\ calls[c][idx].st = "returned"
                   /\ TRUE \in Ids(calls[c][idx].results)

\* C3 witness: the only call of cycle 1 threw, its id is not in the store, and
\* cycle 2 dispatches the same announcement again.
C3_Witness ==
    /\ pc[1] = "done"
    /\ outcome[1] = "finished"
    /\ calls[1][1].st = "threw"
    /\ feed[1][1] \notin Ids(RecordsOf(file))
    /\ feed[2] = feed[1]
    /\ calls[2][1].st = "run"

\* C4: at most one invocation of main() is in progress at any time.
C4_NoOverlap == Cardinality({c \in Cycles : InProgress(c)}) <= 1

\* C5: the records a cycle appends are in reverse feed order: the feed indices
\* of successfulAnnouncements decrease strictly, the saved store is the loaded
\* store followed by them, and the feed <<3, 2, 1>> with every delivery
\* confirmed on an empty store leaves the store <<1, 2, 3>> (the write of the
\* save having returned).
C5_ChronologicalOrder ==
    \A c \in Cycles :
        /\ \A a, b \in DOMAIN succIdx[c] : a < b => succIdx[c][a] > succIdx[c][b]
        /\ Len(succ[c]) = Len(succIdx[c])
        /\ \A a \in DOMAIN succ[c] : succ[c][a] = feed[c][succIdx[c][a]]
        /\ ("save" \in Ids(writes[c]) /\ OthersWroteNothing(c))
               => RecordsOf(file) = RecordsOf(start[c]) \o succ[c]
        /\ ( /\ pc[c] = "done"
             /\ OthersWroteNothing(c)
             /\ feed[c] = <<3, 2, 1>>
             /\ RecordsOf(start[c]) = <<>>
             /\ NoWriteFailed
             /\ Len(succ[c]) = 3 )
           => RecordsOf(file) = <<1, 2, 3>>

\* C5 witness: the feed <<3, 2, 1>> was delivered and saved as <<1, 2, 3>>.
C5_Witness ==
    /\ pc[1] = "done"
    /\ feed[1] = <<3, 2, 1>>
    /\ \A idx \in 1..3 : HasSuccess(calls[1][idx])
    /\ RecordsOf(file) = <<1, 2, 3>>

\* C6 as claimed: after a cycle whose fetch failed the file is what it was
\* before the cycle, whatever it was, and no delivery was attempted (stated
\* for the runs in which no other cycle wrote the file).
C6_FetchFailureLeavesFile ==
    \A c \in Cycles :
        (outcome[c] = "fetchError" /\ OthersWroteNothing(c))
        => (file = start[c] /\ NoCalls(c))

\* C6 as amended: a cycle whose fetch failed attempts no delivery and writes
\* the file only in loadPosted, and only when the file was absent or did not
\* parse: it is then an empty array; a file that parsed is left as it was.
C6_FetchFailureWritesOnlyOnLoad ==
    \A c \in Cycles :
        outcome[c] = "fetchError" =>
            /\ NoCalls(c)
            /\ succ[c] = <<>>
            /\ start[c].kind \in {"absent", "garbage", "valid"}
            /\ writes[c] = IF start[c].kind = "valid" THEN <<>> ELSE <<"load">>
            /\ OthersWroteNothing(c) =>
                   file = IF start[c].kind = "valid" THEN start[c] ELSE EmptyFile

\* C6 witness: a fetch failed on a store with a record, and the file is as before.
C6_Witness ==
    \E c \in Cycles :
        /\ outcome[c] = "fetchError"
        /\ start[c].kind = "valid"
        /\ Len(start[c].recs) > 0
        /\ file = start[c]

\* C7: on a file that does not parse, or parses to something that is no array,
\* the cycle goes on past loadPosted with an empty store and the file is valid
\* from then on (no file write having failed).
C7_CorruptStateRecovery ==
    \A c \in Cycles :
        (c <= nStarted /\ NoWriteFailed /\ start[c].kind \in {"garbage", "nonarray"})
        => (outcome[c] # "loadError" /\ file.kind = "valid")

\* C8, state part: while a call runs its attempt counter is within 1..3, a
\* backoff follows only attempts 1 and 2, and the call holds one outcome per
\* webhook it is done with.
C8_Inv ==
    \A c \in Cycles : \A idx \in FeedIdx :
        LET cr == calls[c][idx]
        IN  /\ cr.st = "run" =>
                /\ cr.attempt \in 1..3
                /\ cr.k \in 1..targets
                /\ cr.phase = "backoff" => cr.attempt < 3
                /\ Len(cr.results) = IF cr.phase = "pause" THEN cr.k ELSE cr.k - 1
            /\ cr.st \in {"returned", "threw"} => Len(cr.results) = targets

\* C8, step part: an outcome is pushed only when a send ends and the attempts
\* for that webhook stop there; a failure outcome is pushed only by attempt 3;
\* the attempt counter grows by one after a backoff and restarts at 1 for the
\* next webhook.
C8_Act ==
    \A c \in Cycles : \A idx \in FeedIdx :
        LET a == calls[c][idx]
            b == calls'[c][idx]
        IN  /\ Len(b.results) # Len(a.results) =>
                /\ a.st = "run"
                /\ a.phase = "send"
                /\ b.phase = "pause"
                /\ b.results = Append(a.results, b.results[Len(b.results)])
                /\ b.results[Len(b.results)] = FALSE => a.attempt = 3
            /\ (a.st = "run" /\ a.phase = "send" /\ b.phase = "backoff") =>
                /\ b.attempt = a.attempt
                /\ b.k = a.k
            /\ (a.st = "run" /\ b.st = "run" /\ b.attempt # a.attempt) =>
                \/ a.phase = "backoff" /\ b.phase = "send"
                      /\ b.attempt = a.attempt + 1 /\ b.k = a.k
                \/ a.phase = "pause" /\ b.phase = "send"
                      /\ b.attempt = 1 /\ b.k = a.k + 1

C9_KnownFeedIsNoOp ==
    \A c \in Cycles :
        (FetchReturned(c) /\ Ids(feed[c]) \subseteq Ids(RecordsOf(start[c])))
        => /\ NoCalls(c)
           /\ succ[c] = <<>>
           /\ "save" \notin Ids(writes[c])
           /\ start[c].kind = "valid" => writes[c] = <<>>

\* C9 witness: cycle 1 delivered and saved its feed, cycle 2 ran over the same
\* feed, dispatched nothing and left the file as it found it.
C9_Witness ==
    /\ pc[1] = "done"
    /\ pc[2] = "done"
    /\ Len(feed[1]) > 0
    /\ feed[2] = feed[1]
    /\ succ[1] = feed[1]
    /\ start[2] = savePosted(RecordsOf(start[1]) \o succ[1])
    /\ NoCalls(2)
    /\ writes[2] = <<>>
    /\ file = start[2]

\* C10: the store is append-only: the records of the file before a step are a
\* prefix of the records after it (in steps whose file write returned).
C10_AppendOnly == [][NoWriteFailed' => IsPrefix(RecordsOf(file), RecordsOf(file'))]_vars

\* savePosted was called in cycle c.
SaveCalled(c) == Ids(writes[c]) \cap {"save", "savePartial", "saveRefused"} # {}

\* C11: savePosted is atomic for a later loadPosted: after a call of
\* savePosted, whatever became of it, loadPosted returns the store as it was
\* before the call or the store the call was given (stated for the runs in
\* which no other cycle wrote the file).
C11_SaveAtomic ==
    \A c \in Cycles :
        (SaveCalled(c) /\ OthersWroteNothing(c))
        => loadPosted(file).ret \in {RecordsOf(start[c]), posted[c]}

\* C12: no error raised in a cycle leaves main() or ends the process: the
\* process is alive in every state, no cycle ended with an error nothing
\* caught, and the next invocation of main() can start whatever the earlier
\* cycles ended with.
C12_ErrorsStayInside ==
    /\ alive
    /\ \A c \in Cycles : outcome[c] # "escaped"
    /\ \A c \in Cycles : c = nStarted + 1 => ENABLED StartCycle(c)

\* C12 witness: in cycle 1 the only target failed every attempt and the backup
\* failed, cycle 2 started all the same and its save failed.
C12_Witness ==
    /\ calls[1][1].st = "threw"
    /\ token
    /\ sync[1].st = "false"
    /\ outcome[2] = "saveError"
    /\ alive

\* The store file a cycle that reached its sync left: the saved store, or the
\* file as loadPosted left it.
FileBeforeSync(c) ==
    IF succ[c] # <<>>
    THEN savePosted(RecordsOf(start[c]) \o succ[c])
    ELSE loadPosted(start[c]).file

\* C13, state part: no call of syncToGitHub throws to main(); a call that
\* failed returned false, the cycle ran to its end, and the store file is the
\* one the cycle had before the call.
C13_Inv ==
    \A c \in Cycles :
        /\ sync[c].st # "threw"
        /\ outcome[c] # "syncError"
        /\ sync[c].st = "false" =>
              /\ pc[c] = "done"
              /\ outcome[c] = "finished"
              /\ OthersWroteNothing(c) => file = FileBeforeSync(c)

\* C13, step part: a step of a syncToGitHub call leaves the store file, the
\* loaded store, the successful announcements and the calls as they were.
C13_Act ==
    \A c \in Cycles :
        (sync[c].st \in {"get", "put"} /\ sync'[c] # sync[c])
        => /\ file' = file
           /\ posted' = posted
           /\ succ' = succ
           /\ calls' = calls
           /\ writes' = writes

\* C13: syncToGitHub never throws past its boundary, returns false on a
\* failure, and a failed sync changes neither the store nor what the cycle
\* delivered and recorded.
C13_SyncFailureAbsorbed == []C13_Inv /\ [][C13_Act]_vars

\* C13 witness: with a token set, the sync that followed a save failed, and
\* the file holds the saved store with its new record.
C13_Witness ==
    \E c \in Cycles :
        /\ token
        /\ sync[c] = SyncCall("false", "save")
        /\ succ[c] # <<>>
        /\ file = savePosted(RecordsOf(start[c]) \o succ[c])

\* C14 as claimed: a cycle writes the store file at most once, and only when
\* it confirmed a new record.
C14_OneWriteOnlyIfConfirmed ==
    \A c \in Cycles :
        LET W == {x \in DOMAIN writes[c] :
                     writes[c][x] \notin {"loadRefused", "saveRefused"}}
        IN  /\ Cardinality(W) <= 1
            /\ W # {} => succ[c] # <<>>

\* C14 as amended: savePosted is called at most once in a cycle, as its last
\* write and only when a new record was confirmed; the only other write is
\* the one loadPosted makes first, for a file that was absent or did not
\* parse.
C14_SaveAtMostOnce ==
    \A c \in Cycles :
        LET W == writes[c]
            S == {x \in DOMAIN W : W[x] \in {"save", "savePartial", "saveRefused"}}
        IN  /\ Cardinality(S) <= 1
            /\ \A x \in S : x = Len(W) /\ succ[c] # <<>>
            /\ \A x \in DOMAIN W \ S :
                   /\ x = 1
                   /\ W[x] \in {"load", "loadPartial", "loadRefused"}
                   /\ start[c].kind \in {"absent", "garbage"}

\* C14 witness: a cycle that found no file wrote it twice, in loadPosted and
\* in savePosted.
C14_Witness ==
    \E c \in Cycles :
        /\ start[c].kind = "absent"
        /\ writes[c] = <<"load", "save">>
        /\ file = savePosted(succ[c])

\* C15: no target receives the same announcement in two different cycles
\* (every file write having returned).
C15_NoRedelivery ==
    \A x \in DOMAIN feed[1] : \A y \in DOMAIN feed[2] : \A t \in TargetIdx :
        (NoWriteFailed /\ feed[1][x] = feed[2][y])
        => ~(wire[1][x].recv[t] > 0 /\ wire[2][y].recv[t] > 0)

\* C16: the announcements of a cycle are dispatched one after the other: at
\* most one postToDiscord call of a cycle is running at any time.
C16_OneCallAtATime ==
    \A c \in Cycles : Cardinality({x \in FeedIdx : calls[c][x].st = "run"}) <= 1

\* The sends of call x of cycle c to webhook t that are in flight.
InFlight(c, x, t) ==
    wire[c][x].pend[t]
    + (IF calls[c][x].st = "run" /\ calls[c][x].phase = "send" /\ calls[c][x].k = t
       THEN 1 ELSE 0)

\* C17: at most one send of a dispatch is in flight at any time, and a webhook
\* receives the announcement at most once in one dispatch.
C17_OneSendInFlight ==
    \A c \in Cycles : \A x \in FeedIdx :
        /\ \A t, u \in TargetIdx :
               InFlight(c, x, t) + (IF u # t THEN InFlight(c, x, u) ELSE 0) <= 1
        /\ \A t \in TargetIdx : wire[c][x].recv[t] <= 1

\* C18: an announcement that stays in the feed is recorded in the end when a
\* configured webhook accepts every send: if from some point on no file write
\* fails, the id 1 comes to be in the store.
C18_EventuallyRecorded ==
    (<>[]NoWriteFailed) => <>(1 \in Ids(RecordsOf(file)))

\* C19, state part: a call that ended holds one outcome per webhook; a running
\* call is at a webhook of the list and holds the outcomes of those before it.
C19_Inv ==
    \A c \in Cycles : \A x \in FeedIdx :
        LET cr == calls[c][x]
        IN  /\ cr.st \in {"returned", "threw"} => Len(cr.results) = targets
            /\ cr.st = "run" =>
                  /\ cr.k \in 1..targets
                  /\ Len(cr.results) \in {cr.k - 1, cr.k}

\* C19, step part: the outcome pushed is that of the webhook the call is at
\* and lands at its position; the call moves to the next webhook of the list
\* only, and only once the outcome of the current one is pushed; it ends only
\* after the last webhook.
C19_Act ==
    \A c \in Cycles : \A x \in FeedIdx :
        LET a == calls[c][x]
            b == calls'[c][x]
        IN  /\ (a.st = "run" /\ b.results # a.results) =>
                  /\ Len(b.results) = a.k
                  /\ SubSeq(b.results, 1, Len(a.results)) = a.results
                  /\ b.k = a.k
            /\ (a.st = "run" /\ b.st = "run" /\ b.k # a.k) =>
                  /\ b.k = a.k + 1
                  /\ Len(a.results) = a.k
            /\ (a.st = "run" /\ b.st \in {"returned", "threw"}) =>
                  /\ a.k = targets
                  /\ b.results = a.results

SyncIfNeededInvokes(c) ==
    /\ sync[c].st = "none"
    /\ sync'[c].via = "ifNeeded"
    /\ sync'[c].st # "skipped"

\* C21: a cycle that had candidates and confirmed no new record calls
\* syncToGitHub only if SYNC_INTERVAL_MS has passed since the last sync that
\* was performed, whichever path performed it: in a step in which
\* syncIfNeeded calls syncToGitHub, no performed sync is younger than the
\* cooldown.
C21_SyncOnlyAfterCooldown ==
    [][\A c \in Cycles :
          (SyncIfNeededInvokes(c) /\ feed'[c] # <<>> /\ succ'[c] = <<>>)
          => lastSync = "none"]_vars

\* The syncToGitHub call of cycle c was made.
SyncInvoked(c) == sync[c].st \in {"get", "put", "true", "false"}

\* C22, state part: a cycle that saved the store has called syncToGitHub
\* from line 426, and the call has ended when the cycle is over; a call from
\* line 426 has the save before it; a cycle that went through syncIfNeeded
\* never called savePosted.
C22_Inv ==
    \A c \in Cycles :
        /\ "save" \in Ids(writes[c]) => (sync[c].via = "save" /\ SyncInvoked(c))
        /\ ("save" \in Ids(writes[c]) /\ pc[c] = "done") => sync[c].st \in {"true", "false"}
        /\ sync[c].via = "save" => "save" \in Ids(writes[c])
        /\ sync[c].via = "ifNeeded" => ~SaveCalled(c)

\* C22, step part: the call is made in the step that saves, after the save,
\* and a cycle that has made its call makes no other: the call only moves
\* on from one await to the next and to its end.
C22_Act ==
    \A c \in Cycles :
        /\ (sync[c].st = "none" /\ sync'[c].via = "save") =>
               /\ writes'[c] = Append(writes[c], "save")
               /\ file' = syncCreatesFile(savePosted(posted'[c]))
        /\ (sync[c].st # "none" /\ sync'[c] # sync[c]) =>
               /\ sync'[c].via = sync[c].via
               /\ <<sync[c].st, sync'[c].st>> \in
                      {<<"get", "put">>, <<"put", "true">>, <<"put", "false">>}

\* C22: a cycle that saved the store calls syncToGitHub exactly once, after
\* the save and before it ends, whatever the cooldown, and never before the
\* save.
C22_SyncOnceAfterSave == []C22_Inv /\ [][C22_Act]_vars

\* C22 witness: a cycle saved and is in its syncToGitHub call while the
\* cooldown since lastSyncTime is not over.
C22_Witness ==
    \E c \in Cycles :
        /\ "save" \in Ids(writes[c])
        /\ sync[c] = SyncCall("get", "save")
        /\ ~syncDue
        /\ lastSync = "gate"

\* C23: a cycle whose feed is empty dispatches nothing, leaves the records of
\* the store as they were, and has gone through syncIfNeeded when it ends
\* (stated for the runs in which no other cycle wrote the file).
C23_EmptyFeedStillChecksBackup ==
    \A c \in Cycles :
        outcome[c] = "emptyFeed"
        => /\ NoCalls(c)
           /\ ~SaveCalled(c)
           /\ OthersWroteNothing(c) => RecordsOf(file) = RecordsOf(start[c])
           /\ sync[c].via = "ifNeeded"

\* The text t occurs in the text m, as one piece.
Contains(m, t) ==
    \E off \in 0..(Len(m) - Len(t)) : SubSeq(m, off + 1, off + Len(t)) = t

\* C26: the masked url a call logs for a webhook never holds the url in
\* full, and at least one character of the url's token is not in it (for the
\* urls that have a token).
C26_MaskHidesToken ==
    \A c \in Cycles : \A x \in FeedIdx : \A t \in DOMAIN logged[c][x] :
        TokenOf(urls[t]) # {}
        => /\ ~Contains(logged[c][x][t], FullText(urls[t]))
           /\ \E q \in TokenOf(urls[t]) : q \notin Ids(logged[c][x][t])

\* C27: within one cycle an announcement id is dispatched at most once, also
\* when the feed lists it more than once: no two items of the feed of a cycle
\* with the same id both have a postToDiscord call.
C27_OneDispatchPerId ==
    \A c \in Cycles : \A x, y \in DOMAIN feed[c] :
        (x # y /\ feed[c][x] = feed[c][y])
        => ~(calls[c][x].st # "none" /\ calls[c][y].st # "none")

\* A cycle has run to its end with no webhook configured.
EndedWithoutTargets(c) == targets = 0 /\ pc[c] = "done"

C24_FailureSkipsOneAnnouncement ==
    \A c \in Cycles : \A x \in DOMAIN feed[c] :
        (pc[c] = "done" /\ calls[c][x].st = "threw" /\ NoWriteFailed)
        => /\ \A y \in DOMAIN feed[c] :
                  HasSuccess(calls[c][y]) => feed[c][y] \in Ids(RecordsOf(file))
           /\ \A y \in DOMAIN feed[c] :
                  ~isKnown(RecordsOf(start[c]), feed[c][y]) => calls[c][y].st # "none"

\* C25: part_000 runs one cycle and ends with exit code 0 whatever the
\* deliveries did: once the process has ended after a fetch that returned (no
\* file write having failed) the exit code is 0 and every announcement the
\* webhook accepted is in the store.
C25_OneShotExitsZero ==
    /\ nStarted <= 1
    /\ (~alive /\ i[1] > 0 /\ NoWriteFailed) =>
           /\ outcome[1] = "exit0"
           /\ \A y \in DOMAIN feed[1] :
                  wire[1][y].recv[1] > 0 => feed[1][y] \in Ids(RecordsOf(file))

====
